---------------------------- MODULE Spec2Model ----------------------------
(***************************************************************************)
(* Model of opendataprojects/analyse.ipynb: a CSV of noise-exposure        *)
(* counts per agglomeration is read row by row, every row is cleaned,      *)
(* the kept rows form `data`, and two summary cells select the most and    *)
(* least populated records and render a statement about them.              *)
(*                                                                         *)
(* Python values are tagged: IntVal(n) is the int n, StrVal(s) is the str   *)
(* whose characters are the sequence s.  A name of the kernel's namespace  *)
(* is an optional value: <<>> while unbound, <<v>> once bound to v.        *)
(*                                                                         *)
(* The cells run top to bottom, each against the namespace the earlier     *)
(* ones left; an exception ends the cell that raised it (err records it)   *)
(* and leaves bound what that cell had bound before.  Every cell of a row   *)
(* is a str, as csv.DictReader yields for a row as long as the header.     *)
(***************************************************************************)
EXTENDS Integers, Sequences, FiniteSets, TLC

\* ------------------------------------------------------------------ bounds

\* Longest CSV body (number of rows the reader yields) that is explored.
MaxRows == 2

\* ------------------------------------------------------------ Python values

IntVal(n) == [t |-> "int", i |-> n, s |-> <<>>]

StrVal(chars) == [t |-> "str", i |-> 0, s |-> chars]

\* The None the cleaner returns for a dropped row, and an unbound name.
None == <<>>

\* Characters in code point order (the part of ASCII the inputs use).
Alphabet ==
    << " ", "(", ")", "+", "-", ".", "/",
       "0", "1", "2", "3", "4", "5", "6", "7", "8", "9",
       "A", "M", "a", "c", "d", "e", "g", "i", "j", "l", "m", "n", "o",
       "r", "s", "t", "u" >>

Ord(c) == CHOOSE k \in 1..Len(Alphabet) : Alphabet[k] = c

Digit == <<"0", "1", "2", "3", "4", "5", "6", "7", "8", "9">>

IsDigit(c) == \E k \in 1..10 : Digit[k] = c

DigitValue(c) == (CHOOSE k \in 1..10 : Digit[k] = c) - 1

IsSpace(c) == c = " "

\* str.strip() as int() applies it to its argument.
RECURSIVE LStrip(_)
LStrip(s) ==
    IF s # <<>> /\ IsSpace(Head(s)) THEN LStrip(Tail(s)) ELSE s

RECURSIVE RStrip(_)
RStrip(s) ==
    IF s # <<>> /\ IsSpace(s[Len(s)]) THEN RStrip(SubSeq(s, 1, Len(s) - 1)) ELSE s

\* The value of a run of decimal digits, most significant first.
RECURSIVE DigitsValue(_, _)
DigitsValue(s, acc) ==
    IF s = <<>> THEN acc ELSE DigitsValue(Tail(s), acc * 10 + DigitValue(Head(s)))

AllDigits(s) == s # <<>> /\ \A k \in 1..Len(s) : IsDigit(s[k])

\* int(s) of a str: surrounding whitespace is ignored, one sign is allowed,
\* then one or more decimal digits.  ok = FALSE is the ValueError.
ParseInt(s) ==
    LET body == RStrip(LStrip(s))
        signed == body # <<>> /\ Head(body) \in {"+", "-"}
        digits == IF signed THEN Tail(body) ELSE body
    IN  IF AllDigits(digits)
        THEN [ok |-> TRUE,
              val |-> IF signed /\ Head(body) = "-"
                      THEN 0 - DigitsValue(digits, 0)
                      ELSE DigitsValue(digits, 0)]
        ELSE [ok |-> FALSE, val |-> 0]

\* int(value): an int is returned as it is, a str is parsed.
PyInt(value) ==
    IF value.t = "int" THEN [ok |-> TRUE, val |-> value.i] ELSE ParseInt(value.s)

\* --------------------------------------------------------------- the columns

LocKey == "Location/Agglomeration"

PopKey == "AgglomerationPopulation"

IndKey == "Industry_Pop_Lden>=75dB"

RailKey == "Railways_Pop_Lden>=75dB"

RoadKey == "Road_Pop_Lden>=75dB"

\* The header row, in file order: the order in which row.items() iterates.
Header == <<LocKey, PopKey, IndKey, RailKey, RoadKey>>

Keys == {Header[k] : k \in 1..Len(Header)}

NA == <<"n", "/", "a">>

\* 'Major sources (outside agglomerations)'
Sentinel ==
    << "M", "a", "j", "o", "r", " ", "s", "o", "u", "r", "c", "e", "s", " ",
       "(", "o", "u", "t", "s", "i", "d", "e", " ",
       "a", "g", "g", "l", "o", "m", "e", "r", "a", "t", "i", "o", "n", "s", ")" >>

\* ------------------------------------------------------------------- inputs

LocationCells == {<<"A">>, Sentinel}

PopulationCells == {<<"1", "0", "0">>, <<" ", "3", "0", "0">>, <<"0">>, NA, <<>>}

IndustryCells == {NA, <<"0", "0", "7">>}

RailwaysCells == {<<"5">>, <<"+", "7">>}

RoadCells == {<<"5">>, <<"1", ".", "5">>}

\* The dicts csv.DictReader can yield for the header: every cell a str.
RawRows ==
    { [k \in Keys |->
          StrVal(CASE k = LocKey -> loc
                [] k = PopKey -> pop
                [] k = IndKey -> ind
                [] k = RailKey -> rail
                [] OTHER -> road)]
      : loc \in LocationCells, pop \in PopulationCells, ind \in IndustryCells,
        rail \in RailwaysCells, road \in RoadCells }

\* -------------------------------------------------------------------- clean

\* Variant of CleanItem: the except clause puts the original value back.
CleanItem_restore(row, key) ==
    LET value == row[key]
        r1 == IF value = StrVal(NA) THEN [row EXCEPT ![key] = IntVal(0)] ELSE row
        n == PyInt(value)
    IN  IF n.ok THEN [r1 EXCEPT ![key] = IntVal(n.val)] ELSE [r1 EXCEPT ![key] = value]

\* Variant of CleanItem: a value that does not convert is replaced by 0.
CleanItem_zero(row, key) ==
    LET value == row[key]
        n == PyInt(value)
    IN  IF n.ok THEN [row EXCEPT ![key] = IntVal(n.val)] ELSE [row EXCEPT ![key] = IntVal(0)]

\* Variant of CleanItem: 'n/a' is replaced by the str '0', not the int 0.
CleanItem_str(row, key) ==
    LET value == row[key]
        r1 == IF value = StrVal(NA) THEN [row EXCEPT ![key] = StrVal(<<"0">>)] ELSE row
        n == PyInt(value)
    IN  IF n.ok THEN [r1 EXCEPT ![key] = IntVal(n.val)] ELSE r1

\* One pass of the body of `for key, value in row.items()`.
CleanItem(row, key) ==
    LET value == row[key]
        r1 == IF value = StrVal(NA) THEN [row EXCEPT ![key] = IntVal(0)] ELSE row
        n == PyInt(value)
    IN  IF n.ok THEN [r1 EXCEPT ![key] = IntVal(n.val)] ELSE r1

RECURSIVE CleanItems(_, _)
CleanItems(row, keys) ==
    IF keys = <<>> THEN row ELSE CleanItems(CleanItem(row, Head(keys)), Tail(keys))

\* Variant of clean: no row is excluded.
clean_keep_all(row) ==
    LET cleaned == CleanItems(row, Header)
    IN  [ret |-> <<cleaned>>, obj |-> cleaned]

\* Variant of clean: the items are converted in a copy of the row.
clean_copy(row) ==
    IF row[LocKey] = StrVal(Sentinel)
    THEN [ret |-> None, obj |-> row]
    ELSE [ret |-> <<CleanItems(row, Header)>>, obj |-> row]

\* clean(row): ret is the value returned (None, or the record), obj is the
\* content of the dict object that was passed in, as it is after the call.
clean(row) ==
    IF row[LocKey] = StrVal(Sentinel)
    THEN [ret |-> None, obj |-> row]
    ELSE LET cleaned == CleanItems(row, Header)
         IN  [ret |-> <<cleaned>>, obj |-> cleaned]

\* ------------------------------------------------------- max, min, sum, /

\* a < b for two str, by code point, as Python compares them.
RECURSIVE StrLess(_, _)
StrLess(a, b) ==
    IF b = <<>> THEN FALSE
    ELSE IF a = <<>> THEN TRUE
    ELSE IF Head(a) = Head(b) THEN StrLess(Tail(a), Tail(b))
    ELSE Ord(Head(a)) < Ord(Head(b))

\* a < b; ok = FALSE is the TypeError of ordering an int against a str.
Less(a, b) ==
    IF a.t # b.t THEN [ok |-> FALSE, val |-> FALSE]
    ELSE IF a.t = "int" THEN [ok |-> TRUE, val |-> a.i < b.i]
    ELSE [ok |-> TRUE, val |-> StrLess(a.s, b.s)]

\* Variant of MaxScan: an item of equal key replaces the held one too.
RECURSIVE MaxScan_last(_, _, _, _)
MaxScan_last(d, key, k, best) ==
    IF k > Len(d) THEN best
    ELSE LET c == Less(d[k][key], d[best][key])
         IN  IF ~c.ok THEN 0
             ELSE MaxScan_last(d, key, k + 1, IF c.val THEN best ELSE k)

\* The scan of max(d, key=itemgetter(key)) from item k on, `best` being the
\* index of the item held so far: an item replaces it only when its key is
\* strictly greater.  0 is the TypeError.
RECURSIVE MaxScan(_, _, _, _)
MaxScan(d, key, k, best) ==
    IF k > Len(d) THEN best
    ELSE LET c == Less(d[best][key], d[k][key])
         IN  IF ~c.ok THEN 0
             ELSE MaxScan(d, key, k + 1, IF c.val THEN k ELSE best)

\* The scan of min: an item replaces the held one only when strictly less.
RECURSIVE MinScan(_, _, _, _)
MinScan(d, key, k, best) ==
    IF k > Len(d) THEN best
    ELSE LET c == Less(d[k][key], d[best][key])
         IN  IF ~c.ok THEN 0
             ELSE MinScan(d, key, k + 1, IF c.val THEN k ELSE best)

PyMax(d, key) ==
    IF d = <<>> THEN [exc |-> "ValueError", val |-> None]
    ELSE LET k == MaxScan(d, key, 2, 1)
         IN  IF k = 0 THEN [exc |-> "TypeError", val |-> None]
             ELSE [exc |-> "", val |-> <<d[k]>>]

PyMin(d, key) ==
    IF d = <<>> THEN [exc |-> "ValueError", val |-> None]
    ELSE LET k == MinScan(d, key, 2, 1)
         IN  IF k = 0 THEN [exc |-> "TypeError", val |-> None]
             ELSE [exc |-> "", val |-> <<d[k]>>]

\* Variant of HighExposureCount: the road count is left out of the sum.
HighExposureCount_no_road(rec) ==
    IF rec[IndKey].t = "int" /\ rec[RailKey].t = "int"
    THEN [exc |-> "", val |-> rec[IndKey].i + rec[RailKey].i]
    ELSE [exc |-> "TypeError", val |-> 0]

\* sum([...]) of the three >=75dB counts of a record: 0 + a + b + c, a
\* TypeError as soon as a term is a str.
HighExposureCount(rec) ==
    IF rec[IndKey].t = "int" /\ rec[RailKey].t = "int" /\ rec[RoadKey].t = "int"
    THEN [exc |-> "", val |-> rec[IndKey].i + rec[RailKey].i + rec[RoadKey].i]
    ELSE [exc |-> "TypeError", val |-> 0]

\* count / population: int / str is a TypeError, int / 0 a ZeroDivisionError.
DivisionError(population) ==
    IF population.t # "int" THEN "TypeError"
    ELSE IF population.i = 0 THEN "ZeroDivisionError"
    ELSE ""

Abs(n) == IF n < 0 THEN 0 - n ELSE n

\* (count / population) * 100 rounded to hundredths, as '{0:.2f}' rounds it,
\* in hundredths and without its sign.  The quotient is a double within an
\* ulp of the exact one, so it rounds as the exact one does unless the exact
\* one lies halfway between two hundredths: there either neighbour can come.
Hundredths(count, population) ==
    LET q == Abs(count) * 10000
        p == Abs(population)
        h == q \div p
        r == q % p
    IN  IF 2 * r < p THEN {h}
        ELSE IF 2 * r > p THEN {h + 1}
        ELSE {h, h + 1}

\* str(n) of an int n >= 0.
RECURSIVE NatToStr(_)
NatToStr(n) ==
    IF n < 10 THEN <<Digit[n + 1]>> ELSE NatToStr(n \div 10) \o <<Digit[(n % 10) + 1]>>

IntToStr(n) == IF n < 0 THEN <<"-">> \o NatToStr(0 - n) ELSE NatToStr(n)

\* '{0:.2f}%'.format(x) for the x that rounds to h hundredths.
FormatPercent(negative, h) ==
    (IF negative THEN <<"-">> ELSE <<>>)
        \o NatToStr(h \div 100) \o <<".">>
        \o <<Digit[((h % 100) \div 10) + 1], Digit[(h % 10) + 1]>> \o <<"%">>

\* The sign of count / population as a double, -0.0 included.
Negative(count, population) ==
    \/ count < 0 /\ population > 0
    \/ count >= 0 /\ population < 0

\* What '{...}'.format puts in place of a field.
Render(v) == IF v.t = "int" THEN IntToStr(v.i) ELSE v.s

\* -------------------------------------------------------------------- state

VARIABLES
    pc,         \* the cell that runs next
    nread,      \* rows the reader has yielded
    ndropped,   \* rows for which clean returned None
    raw_row,    \* the last dict the reader yielded, as it was yielded
    row_obj,    \* that same dict object, as it is now
    row,        \* the loop variable `row` after `row = clean(row)`
    data,
    columns,
    rows,
    most_populated,
    least_populated,
    most_populated_high_exposure_count,
    most_populated_high_exposure_percent,
    least_populated_high_exposure_count,
    least_populated_high_exposure_percent,
    statement,
    err,        \* per cell, the exception that ended it ("" when none did)
    stdout      \* what print (pprint) has written

build_vars == <<nread, ndropped, raw_row, row_obj, row, data>>

query_vars == <<columns, rows, most_populated, least_populated>>

report_vars ==
    <<most_populated_high_exposure_count, most_populated_high_exposure_percent,
      least_populated_high_exposure_count, least_populated_high_exposure_percent,
      statement>>

vars == <<pc, build_vars, query_vars, report_vars, err, stdout>>

Init ==
    /\ pc = "build"
    /\ nread = 0
    /\ ndropped = 0
    /\ raw_row = None
    /\ row_obj = None
    /\ row = None
    /\ data = <<>>
    /\ columns = None
    /\ rows = None
    /\ most_populated = None
    /\ least_populated = None
    /\ most_populated_high_exposure_count = None
    /\ most_populated_high_exposure_percent = None
    /\ least_populated_high_exposure_count = None
    /\ least_populated_high_exposure_percent = None
    /\ statement = None
    /\ err = [sample |-> "", query |-> "", report |-> ""]
    /\ stdout = <<>>

\* `if row:` - None is false, a dict is true unless it is empty.
Truthy(v) == v # None /\ DOMAIN v[1] # {}

\* Variant of ReadRow: a kept row is put at the front of data.
ReadRow_front ==
    /\ pc = "build"
    /\ nread < MaxRows
    /\ \E r \in RawRows :
        LET c == clean(r)
        IN  /\ raw_row' = <<r>>
            /\ row_obj' = <<c.obj>>
            /\ row' = c.ret
            /\ data' = IF Truthy(c.ret) THEN <<c.ret[1]>> \o data ELSE data
            /\ ndropped' = IF c.ret = None THEN ndropped + 1 ELSE ndropped
    /\ nread' = nread + 1
    /\ pc' = pc
    /\ UNCHANGED <<query_vars, report_vars, err, stdout>>

\* One iteration of `for row in reader`.
ReadRow ==
    /\ pc = "build"
    /\ nread < MaxRows
    /\ \E r \in RawRows :
        LET c == clean(r)
        IN  /\ raw_row' = <<r>>
            /\ row_obj' = <<c.obj>>
            /\ row' = c.ret
            /\ data' = IF Truthy(c.ret) THEN Append(data, c.ret[1]) ELSE data
            /\ ndropped' = IF c.ret = None THEN ndropped + 1 ELSE ndropped
    /\ nread' = nread + 1
    /\ pc' = pc
    /\ UNCHANGED <<query_vars, report_vars, err, stdout>>

\* The reader is exhausted: the loop, and with it the cell, ends.
EndOfInput ==
    /\ pc = "build"
    /\ pc' = "sample"
    /\ UNCHANGED <<build_vars, query_vars, report_vars, err, stdout>>

Printed(rec) == [kind |-> "record", rec |-> <<rec>>, text |-> <<>>]

PrintedText(t) == [kind |-> "text", rec |-> <<>>, text |-> t]

\* The cell `print(data[0])`.
Sample ==
    /\ pc = "sample"
    /\ IF data = <<>>
       THEN /\ err' = [err EXCEPT !.sample = "IndexError"]
            /\ stdout' = stdout
       ELSE /\ err' = err
            /\ stdout' = Append(stdout, Printed(data[1]))
    /\ pc' = "query"
    /\ UNCHANGED <<build_vars, query_vars, report_vars>>

\* Variant of QueryCell: the columns are counted only when there is a first
\* record, so that an empty dataset gets as far as max().
QueryCell_guarded(d) ==
    LET unbound == [columns |-> None, rows |-> None, most |-> None,
                    least |-> None, exc |-> "", out |-> <<>>]
        counted == [unbound EXCEPT
                        !.columns = <<IF d = <<>> THEN 0 ELSE Cardinality(DOMAIN d[1])>>,
                        !.rows = <<Len(d)>>]
        mx == PyMax(d, PopKey)
        mn == PyMin(d, PopKey)
    IN  IF mx.exc # "" THEN [counted EXCEPT !.exc = mx.exc]
        ELSE IF mn.exc # "" THEN [counted EXCEPT !.most = mx.val, !.exc = mn.exc]
        ELSE [counted EXCEPT !.most = mx.val, !.least = mn.val,
                             !.out = <<Printed(mx.val[1]), Printed(mn.val[1])>>]

\* The cell of the high-level data points, statement by statement: the
\* names bound before the first exception stay bound, the others do not.
QueryCell(d) ==
    LET unbound == [columns |-> None, rows |-> None, most |-> None,
                    least |-> None, exc |-> "", out |-> <<>>]
    IN  IF d = <<>> THEN [unbound EXCEPT !.exc = "IndexError"]
        ELSE LET counted == [unbound EXCEPT !.columns = <<Cardinality(DOMAIN d[1])>>,
                                            !.rows = <<Len(d)>>]
                 mx == PyMax(d, PopKey)
                 mn == PyMin(d, PopKey)
             IN  IF mx.exc # "" THEN [counted EXCEPT !.exc = mx.exc]
                 ELSE IF mn.exc # "" THEN [counted EXCEPT !.most = mx.val, !.exc = mn.exc]
                 ELSE [counted EXCEPT !.most = mx.val, !.least = mn.val,
                                      !.out = <<Printed(mx.val[1]), Printed(mn.val[1])>>]

Query ==
    /\ pc = "query"
    /\ LET q == QueryCell(data)
       IN  /\ columns' = q.columns
           /\ rows' = q.rows
           /\ most_populated' = q.most
           /\ least_populated' = q.least
           /\ err' = [err EXCEPT !.query = q.exc]
           /\ stdout' = stdout \o q.out
    /\ pc' = "report"
    /\ UNCHANGED <<build_vars, report_vars>>

\* Variant of Exposure: a population of 0 gives 0.00% instead of a fault.
Exposure_guarded(selected, h) ==
    IF selected = None THEN [exc |-> "NameError", count |-> None, percent |-> None]
    ELSE LET c == HighExposureCount(selected[1])
             pop == selected[1][PopKey]
         IN  IF c.exc # "" THEN [exc |-> c.exc, count |-> None, percent |-> None]
             ELSE IF DivisionError(pop) = "TypeError"
             THEN [exc |-> "TypeError", count |-> <<c.val>>, percent |-> None]
             ELSE [exc |-> "", count |-> <<c.val>>,
                   percent |-> <<FormatPercent(FALSE, h)>>]

\* The exposure count and percentage of one selected record: a NameError
\* when the name is unbound, else the sum, then the division and format.
\* h is the rounding the format makes of the quotient.
Exposure(selected, h) ==
    IF selected = None THEN [exc |-> "NameError", count |-> None, percent |-> None]
    ELSE LET c == HighExposureCount(selected[1])
             pop == selected[1][PopKey]
         IN  IF c.exc # "" THEN [exc |-> c.exc, count |-> None, percent |-> None]
             ELSE IF DivisionError(pop) # ""
             THEN [exc |-> DivisionError(pop), count |-> <<c.val>>, percent |-> None]
             ELSE [exc |-> "", count |-> <<c.val>>,
                   percent |-> <<FormatPercent(Negative(c.val, pop.i), h)>>]

\* The roundings '{0:.2f}' can make for a selected record (one, unless the
\* quotient is a tie; 0 stands in when no quotient is computed).
Roundings(selected) ==
    IF selected = None THEN {0}
    ELSE LET c == HighExposureCount(selected[1])
             pop == selected[1][PopKey]
         IN  IF c.exc # "" \/ DivisionError(pop) # "" THEN {0}
             ELSE Hundredths(c.val, pop.i)

\* The fields of the statement template in the order they occur in it.
Statement(m, mx, l, lx) ==
    << IntToStr(columns[1]), IntToStr(rows[1]),
       Render(m[LocKey]), Render(m[PopKey]), IntToStr(mx.count[1]), mx.percent[1],
       Render(l[LocKey]), Render(l[PopKey]), IntToStr(lx.count[1]), lx.percent[1] >>

\* The cell of the exposure figures and the statement.
Report ==
    /\ pc = "report"
    /\ \E hm \in Roundings(most_populated), hl \in Roundings(least_populated) :
        LET mx == Exposure(most_populated, hm)
            lx == Exposure(least_populated, hl)
        IN  /\ most_populated_high_exposure_count' = mx.count
            /\ most_populated_high_exposure_percent' = mx.percent
            /\ IF mx.exc # ""
               THEN /\ least_populated_high_exposure_count' = None
                    /\ least_populated_high_exposure_percent' = None
                    /\ statement' = None
                    /\ err' = [err EXCEPT !.report = mx.exc]
                    /\ stdout' = stdout
               ELSE /\ least_populated_high_exposure_count' = lx.count
                    /\ least_populated_high_exposure_percent' = lx.percent
                    /\ IF lx.exc # ""
                       THEN /\ statement' = None
                            /\ err' = [err EXCEPT !.report = lx.exc]
                            /\ stdout' = stdout
                       ELSE LET st == Statement(most_populated[1], mx,
                                                least_populated[1], lx)
                            IN  /\ statement' = <<st>>
                                /\ err' = err
                                /\ stdout' = Append(stdout, PrintedText(st))
    /\ pc' = "done"
    /\ UNCHANGED <<build_vars, query_vars>>

Next == ReadRow \/ EndOfInput \/ Sample \/ Query \/ Report

Spec == Init /\ [][Next]_vars

\* ------------------------------------------------------------ properties

Excluded(raw) == raw[LocKey] = StrVal(Sentinel)

IsIntVal(v) == v.t = "int"

\* The population of record k of data.
Pop(k) == data[k][PopKey]

AllIntPopulations == \A k \in 1..Len(data) : IsIntVal(Pop(k))

Summarised == pc \in {"report", "done"}

\* C1: the dataset never holds a record whose location is the excluded
\* one, the row just read was dropped exactly when its location is the
\* excluded one, and a row that was not dropped is the last record of data.
C1_OnlySentinelRowsDropped ==
    /\ \A k \in 1..Len(data) : data[k][LocKey] # StrVal(Sentinel)
    /\ raw_row # None =>
        /\ Excluded(raw_row[1]) <=> row = None
        /\ ~Excluded(raw_row[1]) => data # <<>> /\ data[Len(data)] = row[1]

C1_Witness ==
    /\ nread = 2 /\ ndropped = 1 /\ Len(data) = 1
    /\ raw_row # None /\ ~Excluded(raw_row[1])

\* C2: every field of a kept row whose raw value is 'n/a' is the int 0 in
\* the record clean returned, and no record of data holds the str 'n/a'.
C2_NotApplicableIsZero ==
    /\ (raw_row # None /\ row # None) =>
          \A k \in Keys : raw_row[1][k] = StrVal(NA) => row[1][k] = IntVal(0)
    /\ \A i \in 1..Len(data) : \A k \in Keys : data[i][k] # StrVal(NA)

C2_Witness ==
    /\ raw_row # None /\ row # None /\ data # <<>>
    /\ raw_row[1][PopKey] = StrVal(NA) /\ raw_row[1][IndKey] = StrVal(NA)

\* C3: in the record clean returned for a kept row, a field whose raw str
\* int() accepts holds that integer, and a field whose raw str it rejects
\* and that is not 'n/a' holds the raw str itself.
C3_IntegerOrUnchanged ==
    (raw_row # None /\ row # None) =>
        \A k \in Keys :
            LET v == raw_row[1][k]
            IN  /\ ParseInt(v.s).ok => row[1][k] = IntVal(ParseInt(v.s).val)
                /\ (~ParseInt(v.s).ok /\ v.s # NA) => row[1][k] = v

C3_Witness ==
    /\ raw_row # None /\ row # None
    /\ raw_row[1][PopKey] = StrVal(<<" ", "3", "0", "0">>) /\ row[1][PopKey] = IntVal(300)
    /\ raw_row[1][IndKey] = StrVal(<<"0", "0", "7">>) /\ row[1][IndKey] = IntVal(7)
    /\ raw_row[1][RoadKey] = StrVal(<<"1", ".", "5">>) /\ row[1][RoadKey] = raw_row[1][RoadKey]

\* C4: every step leaves data as it is or appends to it the record clean
\* returned for the row just read (and appends exactly when that row is not
\* excluded); its length is the number of rows read minus the number
\* dropped, and that is the row count the summary reports.
C4_AppendOnlyInInputOrder ==
    [][ /\ nread' = nread => data' = data
        /\ nread' # nread =>
              data' = IF Excluded(raw_row'[1]) THEN data ELSE Append(data, row'[1])
        /\ Len(data') = nread' - ndropped'
        /\ rows' # None => rows'[1] = nread' - ndropped' ]_vars

C4_Witness ==
    /\ pc = "done" /\ nread = 2 /\ ndropped = 1 /\ Len(data) = 1 /\ rows = <<1>>

\* C5: over a non-empty dataset of integer populations the summary binds
\* most_populated to the first record whose population no record exceeds,
\* and least_populated to the first record whose population is below no
\* other's.
C5_FirstExtremalRecord ==
    (Summarised /\ data # <<>> /\ AllIntPopulations) =>
        /\ most_populated # None /\ least_populated # None
        /\ \E i \in 1..Len(data) :
              /\ most_populated[1] = data[i]
              /\ \A j \in 1..Len(data) : Pop(j).i <= Pop(i).i
              /\ \A j \in 1..(i - 1) : Pop(j).i < Pop(i).i
        /\ \E i \in 1..Len(data) :
              /\ least_populated[1] = data[i]
              /\ \A j \in 1..Len(data) : Pop(j).i >= Pop(i).i
              /\ \A j \in 1..(i - 1) : Pop(j).i > Pop(i).i

C5_Witness ==
    /\ Summarised /\ Len(data) = 2 /\ AllIntPopulations
    /\ Pop(1) = Pop(2) /\ data[1] # data[2]
    /\ most_populated = <<data[1]>> /\ least_populated = <<data[1]>>

\* The percentage text of count out of population when both are >= 0: the
\* hundredths are a nearest integer to count * 10000 / population.
IsPercentOf(text, count, population) ==
    \E h \in 0..(10000 * count) \div population + 1 :
        /\ 2 * Abs(h * population - 10000 * count) <= population
        /\ text = NatToStr(h \div 100) \o <<".">>
                    \o NatToStr((h % 100) \div 10) \o NatToStr(h % 10) \o <<"%">>

\* The exposure figures of a selected record are those of the claim.
ExposureFiguresOf(selected, count, percent) ==
    LET rec == selected[1]
    IN  /\ count # None =>
              count[1] = rec[IndKey].i + rec[RailKey].i + rec[RoadKey].i
        /\ percent # None => IsPercentOf(percent[1], count[1], rec[PopKey].i)
        /\ ( /\ rec[PopKey] = IntVal(100) /\ rec[IndKey] = IntVal(0)
             /\ rec[RailKey] = IntVal(5) /\ rec[RoadKey] = IntVal(5) ) =>
              /\ count = <<10>>
              /\ percent = << <<"1", "0", ".", "0", "0", "%">> >>

\* C6: once the report cell has run without a fault, the exposure count of
\* each selected record is the sum of its three cleaned >=75dB values and
\* its percentage is count / population * 100 to two decimals; population
\* 100 with values 0 (from 'n/a'), 5, 5 gives 10 and 10.00%.
C6_ExposureCountAndPercent ==
    (pc = "done" /\ err.report = "") =>
        /\ most_populated_high_exposure_count # None
        /\ most_populated_high_exposure_percent # None
        /\ least_populated_high_exposure_count # None
        /\ least_populated_high_exposure_percent # None
        /\ ExposureFiguresOf(most_populated, most_populated_high_exposure_count,
                             most_populated_high_exposure_percent)
        /\ ExposureFiguresOf(least_populated, least_populated_high_exposure_count,
                             least_populated_high_exposure_percent)

C6_Witness ==
    /\ pc = "done" /\ err.report = "" /\ Len(data) = 2
    /\ raw_row # None /\ raw_row[1][IndKey] = StrVal(NA)
    /\ most_populated[1][PopKey] = IntVal(300)
    /\ most_populated_high_exposure_count = <<17>>
    /\ most_populated_high_exposure_percent = << <<"5", ".", "6", "7", "%">> >>
    /\ least_populated[1][PopKey] = IntVal(100)
    /\ least_populated_high_exposure_count = <<10>>
    /\ least_populated_high_exposure_percent = << <<"1", "0", ".", "0", "0", "%">> >>

\* C7: clean applied to a record of data (a record clean returned) returns
\* that record again, field for field.
C7_CleanIdempotent ==
    \A k \in 1..Len(data) : clean(data[k]).ret = <<data[k]>>

C7_Witness ==
    /\ Len(data) = 2
    /\ raw_row # None /\ raw_row[1][IndKey] = StrVal(NA)
    /\ data[2][IndKey] = IntVal(0)
    /\ data[2][PopKey] = StrVal(<<>>)
    /\ data[2][RoadKey] = StrVal(<<"1", ".", "5">>)

\* C8 as stated: after clean has returned, the row mapping the caller
\* passed in holds the keys and values it held before the call.
C8_RowMappingUntouched ==
    raw_row # None => row_obj = raw_row

\* C8 as amended: clean converts the values of a kept row in the mapping it
\* was passed, which is the record it returns (same keys, cleaned values);
\* the mapping of an excluded row is left as it was.  The iteration that
\* calls it changes nothing besides: data stays or gains that record, and
\* no name of the summary, no error and no output changes.
C8_RowCleanedInPlace ==
    /\ [](raw_row # None =>
            /\ DOMAIN row_obj[1] = DOMAIN raw_row[1]
            /\ row = None => row_obj = raw_row
            /\ row # None => row_obj = row)
    /\ [][nread' # nread =>
            /\ data' = IF row' = None THEN data ELSE Append(data, row_obj'[1])
            /\ UNCHANGED <<query_vars, report_vars, err, stdout>>]_vars

C8_Witness ==
    /\ raw_row # None /\ row # None
    /\ row_obj = row /\ row_obj # raw_row

\* C9: when no record survives cleaning, the summary fails on its first
\* statement: no column or row count, no most or least populated record and
\* no statement is ever bound, and both summary cells end in an exception.
C9_EmptyDatasetFails ==
    (data = <<>> /\ Summarised) =>
        /\ err.query = "IndexError"
        /\ columns = None /\ rows = None
        /\ most_populated = None /\ least_populated = None
        /\ statement = None
        /\ pc = "done" => err.report # ""

C9_Witness ==
    /\ pc = "done" /\ data = <<>> /\ nread = 2 /\ ndropped = 2
    /\ err.query = "IndexError" /\ statement = None

SelectedZero ==
    /\ most_populated # None /\ least_populated # None
    /\ most_populated[1][PopKey] = IntVal(0) \/ least_populated[1][PopKey] = IntVal(0)

SelectedPositive ==
    /\ most_populated # None /\ least_populated # None
    /\ IsIntVal(most_populated[1][PopKey]) /\ most_populated[1][PopKey].i > 0
    /\ IsIntVal(least_populated[1][PopKey]) /\ least_populated[1][PopKey].i > 0

IntExposures(selected) ==
    /\ IsIntVal(selected[1][IndKey])
    /\ IsIntVal(selected[1][RailKey])
    /\ IsIntVal(selected[1][RoadKey])

\* C10 as stated: a selected population of 0 ends the report cell in a
\* fault without a statement, and two positive selected populations give a
\* statement.
C10_ZeroFaultsPositiveReports ==
    pc = "done" =>
        /\ SelectedZero => (err.report # "" /\ statement = None)
        /\ SelectedPositive => statement # None

\* C10 as amended: a selected population of 0 ends the report cell in a
\* fault without a statement; two positive selected populations give a
\* statement when the three >=75dB values of both selected records are
\* integers.
C10_ZeroFaultsPositiveIntegersReport ==
    pc = "done" =>
        /\ SelectedZero => (err.report # "" /\ statement = None)
        /\ ( /\ SelectedPositive
             /\ IntExposures(most_populated)
             /\ IntExposures(least_populated) ) =>
              (err.report = "" /\ statement # None)

C10_Witness ==
    /\ pc = "done" /\ Len(data) = 2
    /\ raw_row # None /\ raw_row[1][PopKey] = StrVal(NA)
    /\ most_populated # None /\ least_populated # None
    /\ most_populated[1][PopKey] = IntVal(100)
    /\ least_populated[1][PopKey] = IntVal(0)
    /\ IntExposures(most_populated) /\ IntExposures(least_populated)
    /\ err.report = "ZeroDivisionError" /\ statement = None

=============================================================================
